---- MODULE Spec2Model ----
(***************************************************************************)
(* The chunked documentation pipeline of AutoDoc-Lambda (phase 3):         *)
(* CacheManager (cache_manager_improved.py) over a DynamoDB table and      *)
(* ChunkProcessor (chunk_processor_improved.py), which fans the chunks of  *)
(* a file out to a ThreadPoolExecutor, looks each chunk up in the cache,   *)
(* generates and stores what is missing, and merges the results.           *)
(*                                                                         *)
(* Strings are TLA+ strings; a documentation text is the sequence of its   *)
(* lines and a line is a sequence of tokens, so that the first line of a   *)
(* text can be tested for the prefix "# ".  A number carries its Python    *)
(* type (int, float, Decimal); costs are counted in whole micro-dollars.   *)
(* An optional value (None or a value) is a sequence of length 0 or 1.     *)
(*                                                                         *)
(* Spec is process_chunks run up to MaxCalls times.  SpecKeys and          *)
(* SpecCache call the key functions and save_to_cache directly on drawn    *)
(* arguments; SpecTtl is Spec with the clock and the store's time-to-live  *)
(* deletion between invocations.                                           *)
(***************************************************************************)
EXTENDS Integers, Sequences, FiniteSets, TLC

\* ------------------------------------------------------------------ bounds
MaxChunks == 2      \* longest chunk list handed to process_chunks
MaxPool == 2        \* largest max_workers a ChunkProcessor is built with
MaxCalls == 2       \* process_chunks invocations in one behaviour

VARIABLES
    max_workers,        \* ChunkProcessor.max_workers
    store_source_code,  \* ChunkProcessor.store_source_code
    table,              \* the DynamoDB table behind CacheManager: key -> item
    now,                \* time.time(), in seconds
    calls,              \* process_chunks invocations started so far
    file_path,          \* argument of the current invocation
    chunks,             \* argument of the current invocation
    cpc,                \* position of the coordinator in process_chunks
    submitted,          \* number of executor.submit calls made
    tpc,                \* per future: position of its _process_single_chunk
    cached,             \* per task: the local `cached` (None or the item)
    generated,          \* per task: (documentation, cost_metrics) in hand
    future,             \* per future: its result or its exception
    yielded,            \* futures as_completed has handed to the loop, in order
    chunk_results,
    total_cost,
    total_tokens,
    cache_hits,
    cache_misses,
    output,             \* None or the returned (merged_doc, metrics)
    obs,                \* per task: what its three blocking calls did
    table0,             \* the table when the current invocation began
    last,               \* None, or the previous invocation if it generated and
                        \* stored every chunk: its arguments and its output
    args,               \* None, or the arguments drawn for direct calls
    ret                 \* what the direct calls made so far returned, in order

vars == << max_workers, store_source_code, table, now, calls, file_path, chunks,
           cpc, submitted, tpc, cached, generated, future, yielded,
           chunk_results, total_cost, total_tokens, cache_hits, cache_misses,
           output, obs, table0, last, args, ret >>

\* ------------------------------------------------------------ Python values
None == << >>
Some(v) == << v >>

PyInt(n) == [ty |-> "int", v |-> n]
PyFloat(n) == [ty |-> "float", v |-> n]
PyDecimal(n) == [ty |-> "Decimal", v |-> n]

\* Mutant: `=` written for `+=`, the running total overwritten.
Add_overwrite(a, b) == b

\* Python's a + b on numbers: an int operand takes the other operand's type.
Add(a, b) ==
    [ty |-> IF a.ty = "int" THEN b.ty ELSE a.ty, v |-> a.v + b.v]

\* float_to_decimal on one value of the metadata mapping.
float_to_decimal(x) == IF x.ty = "float" THEN PyDecimal(x.v) ELSE x

\* What the table hands back for a stored number: boto3 reads every
\* DynamoDB number as a Decimal.
dynamodb_number(x) == IF x.ty = "str" THEN x ELSE PyDecimal(x.v)

\* Mutant: the item read from the table is used as it is.
decimal_to_float_omitted(x) == x

\* decimal_to_float on one value of an item read from the table.
decimal_to_float(x) == IF x.ty = "Decimal" THEN PyFloat(x.v) ELSE x

\* ------------------------------------------------------------------ inputs
Paths == {"a.py"}
Contents == {"A", "B"}
ChunkLines == 10
TtlHours == 24

\* The symbols the chunker found in a chunk text: "A" holds a function f,
\* "B" is plain code.
Elements(c) == IF c = "A" THEN << "f" >> ELSE << >>

CodeChunk(k, c) ==
    [chunk_id |-> k, start_line |-> k * ChunkLines + 1,
     end_line |-> (k + 1) * ChunkLines, type |-> "function",
     elements |-> Elements(c), content |-> c]

\* Chunk lists of length n as the chunker produces them: ordinals 0..n-1,
\* ascending.
ChunkListsOf(n) ==
    { [i \in 1..n |-> CodeChunk(i - 1, txt[i])] : txt \in [1..n -> Contents] }

ChunkLists == UNION { ChunkListsOf(n) : n \in 0..MaxChunks }

\* The chunk lists of a file processed again: the same chunks, the text of
\* at most one of them edited.
Reprocessed(chunk_list) ==
    { l \in ChunkListsOf(Len(chunk_list)) :
        Cardinality({ i \in 1..Len(chunk_list) : l[i] # chunk_list[i] }) <= 1 }

\* What generate_documentation can return: (documentation, cost_metrics).
GenOutputs ==
    { [documentation |-> << << "# ", "Title" >>, << "one" >> >>,
       total_cost |-> PyFloat(3), total_tokens |-> PyInt(10)],
      [documentation |-> << << "two" >> >>,
       total_cost |-> PyFloat(5), total_tokens |-> PyInt(20)] }

GenError == "boom"

Futures == 1..Len(chunks)

\* -------------------------------------------------------------- CacheManager
sha256(s) == << "sha256", s >>

calculate_hash(content) == sha256(content)

\* table.get_item answered: the response holds 'Item' iff the key is stored.
get_item(key) == IF key \in DOMAIN table THEN Some(table[key]) ELSE None

\* Mutant: the source field is written whenever retention is requested.
cache_item_source_unchecked(file_hash, path, documentation, metadata, ttl_hours, source_code, store_source) ==
    LET item == [file_hash |-> file_hash,
                 file_path |-> path,
                 documentation |-> documentation,
                 metadata |-> [k \in DOMAIN metadata |-> float_to_decimal(metadata[k])],
                 created_at |-> now,
                 ttl |-> now + ttl_hours * 3600]
    IN  IF store_source
        THEN item @@ [source_code |-> IF source_code = None THEN "" ELSE source_code[1]]
        ELSE item

\* The item save_to_cache builds (lines 96-115).
cache_item(file_hash, path, documentation, metadata, ttl_hours, source_code, store_source) ==
    LET item == [file_hash |-> file_hash,
                 file_path |-> path,
                 documentation |-> documentation,
                 metadata |-> [k \in DOMAIN metadata |-> float_to_decimal(metadata[k])],
                 created_at |-> now,
                 ttl |-> now + ttl_hours * 3600]
    IN  IF store_source /\ source_code # None /\ source_code[1] # ""
        THEN item @@ [source_code |-> source_code[1]]
        ELSE item

\* An item as the table holds it: its numbers are DynamoDB numbers.
stored_item(item) ==
    [item EXCEPT !.metadata =
        [k \in DOMAIN item.metadata |-> dynamodb_number(item.metadata[k])]]

\* table.put_item(Item=item): the item replaces whatever the key held.
put_item(item) == (item.file_hash :> stored_item(item)) @@ table

\* ------------------------------------------------------------ ChunkProcessor
\* Mutant: the ordinal is left out of the hash input.
calculate_chunk_hash_no_ordinal(path, chunk) ==
    << "sha256", path \o "::" \o chunk.content >>

\* Mutant: the chunk text alone is hashed, as for a whole file.
calculate_chunk_hash_content_only(path, chunk) ==
    << "sha256", chunk.content >>

\* Mutant: the chunk text is left out of the hash input.
calculate_chunk_hash_no_content(path, chunk) ==
    << "sha256", path \o "::" \o ToString(chunk.chunk_id) >>

calculate_chunk_hash(path, chunk) ==
    sha256(path \o "::" \o ToString(chunk.chunk_id) \o "::" \o chunk.content)

ChunkKey(i) == calculate_chunk_hash(file_path, chunks[i])

\* Mutant: a worker thread is not given back when its task has finished.
InFlight_not_released ==
    { i \in Futures : tpc[i] \in {"get_cached", "generate", "save_to_cache", "finished"} }

\* The tasks a worker thread is running.
InFlight == { i \in Futures : tpc[i] \in {"get_cached", "generate", "save_to_cache"} }

\* Mutant: a thread per work item, however many are running.
WorkerFree_unbounded == TRUE

\* The executor runs a queued work item when one of its max_workers threads
\* is free; the work queue is FIFO.
WorkerFree == Cardinality(InFlight) < max_workers

NextQueued(i) ==
    /\ tpc[i] = "queued"
    /\ \A j \in Futures : j < i => tpc[j] # "queued"

\* The ChunkResult of a cache hit (lines 168-177).
hit_result(chunk, item) ==
    [chunk_id |-> chunk.chunk_id,
     documentation |-> item.documentation,
     cost |-> PyFloat(0),
     tokens |-> IF "tokens" \in DOMAIN item.metadata
                THEN decimal_to_float(item.metadata["tokens"]) ELSE PyInt(0),
     cached |-> TRUE,
     source_code |-> IF "source_code" \in DOMAIN item THEN Some(item.source_code) ELSE None,
     error |-> None]

\* The ChunkResult of a miss (lines 210-217).
miss_result(chunk, g) ==
    [chunk_id |-> chunk.chunk_id,
     documentation |-> g.documentation,
     cost |-> g.total_cost,
     tokens |-> g.total_tokens,
     cached |-> FALSE,
     source_code |-> Some(chunk.content),
     error |-> None]

\* The result appended for a future that raised (lines 111-118).
error_result(chunk, e) ==
    [chunk_id |-> chunk.chunk_id,
     documentation |-> << << "<!-- Error processing chunk ", ToString(chunk.chunk_id),
                            ": ", e, " -->" >> >>,
     cost |-> PyFloat(0),
     tokens |-> PyInt(0),
     cached |-> FALSE,
     source_code |-> None,
     error |-> Some(e)]

chunk_metadata(chunk, g) ==
    [cost |-> g.total_cost, tokens |-> g.total_tokens,
     chunk_id |-> PyInt(chunk.chunk_id),
     chunk_lines |-> [ty |-> "str",
                      v |-> ToString(chunk.start_line) \o "-" \o ToString(chunk.end_line)]]

\* Mutant: the sort is left out and the results stay in completion order.
sort_by_chunk_id_omitted(results) == results

\* list.sort(key=lambda x: x['chunk_id']): stable, ascending.
RECURSIVE insert_by_chunk_id(_, _)
insert_by_chunk_id(sorted, r) ==
    IF sorted = << >> THEN << r >>
    ELSE IF sorted[Len(sorted)].chunk_id <= r.chunk_id THEN Append(sorted, r)
    ELSE Append(insert_by_chunk_id(SubSeq(sorted, 1, Len(sorted) - 1), r),
                sorted[Len(sorted)])

RECURSIVE sort_by_chunk_id(_)
sort_by_chunk_id(results) ==
    IF results = << >> THEN << >>
    ELSE insert_by_chunk_id(sort_by_chunk_id(SubSeq(results, 1, Len(results) - 1)),
                            results[Len(results)])

\* lines[0].startswith('# ')
starts_with_h1(line) == Len(line) > 0 /\ line[1] = "# "

\* '\n'.join(lines).strip(): blank lines at either end go.
RECURSIVE strip(_)
strip(lines) ==
    IF lines = << >> THEN << >>
    ELSE IF lines[1] = << >> THEN strip(Tail(lines))
    ELSE IF lines[Len(lines)] = << >> THEN strip(SubSeq(lines, 1, Len(lines) - 1))
    ELSE lines

\* One section of the merged document (lines 265-286): the heading and the
\* Contains line come from chunks[i], the text from chunk_results[i].
merge_section(chunk, result) ==
    LET lines == result.documentation
    IN  [chunk_no |-> chunk.chunk_id + 1,
         start_line |-> chunk.start_line,
         end_line |-> chunk.end_line,
         contains |-> chunk.elements,
         text |-> strip(IF Len(lines) > 0 /\ starts_with_h1(lines[1])
                        THEN Tail(lines) ELSE lines)]

\* chunks[i] inside the merge loop raises IndexError when there are more
\* results than chunks.
merge_raises(results, chunk_list) == Len(results) > Len(chunk_list)

merge_chunk_documentation(path, results, chunk_list) ==
    [title |-> path,
     processed_in |-> Len(chunk_list),
     sections |-> [i \in 1..Len(results) |-> merge_section(chunk_list[i], results[i])]]

\* Mutant: the ratio is not scaled to a percentage.
cache_hit_rate_unscaled(hits, chunk_list) ==
    IF chunk_list # << >> THEN [num |-> hits, den |-> Len(chunk_list)]
    ELSE [num |-> 0, den |-> 1]

\* Mutant: the division is made for an empty chunk list too.
cache_hit_rate_unguarded(hits, chunk_list) ==
    [num |-> hits * 100, den |-> Len(chunk_list)]

\* cache_hits / len(chunks) * 100 as the fraction num/den; 0 for no chunks.
cache_hit_rate(hits, chunk_list) ==
    IF chunk_list # << >> THEN [num |-> hits * 100, den |-> Len(chunk_list)]
    ELSE [num |-> 0, den |-> 1]

metrics_of(chunk_list) ==
    [total_cost |-> total_cost,
     total_tokens |-> total_tokens,
     total_chunks |-> Len(chunk_list),
     cache_hits |-> cache_hits,
     cache_misses |-> cache_misses,
     cache_hit_rate |-> cache_hit_rate(cache_hits, chunk_list)]

\* --------------------------------------------------- the blocking calls
\* Mutant: get_cached without its except clause, the backend failure raised.
get_cached_outcomes_raising(key) ==
    { [value |-> get_item(key), seen |-> IF get_item(key) # None THEN "hit" ELSE "miss",
       raised |-> FALSE],
      [value |-> None, seen |-> "fault", raised |-> TRUE] }

\* CacheManager.get_cached(key): the backend answers, or it fails and the
\* except clause returns None.  `raised` tells whether the call raises.
get_cached_outcomes(key) ==
    { [value |-> get_item(key), seen |-> IF get_item(key) # None THEN "hit" ELSE "miss",
       raised |-> FALSE],
      [value |-> None, seen |-> "fault", raised |-> FALSE] }

\* Mutant: the cache is consulted and its answer ignored.
is_hit_ignored(value) == FALSE

\* `if cached:` (line 165)
is_hit(value) == value # None

\* Mutant: save_to_cache without its except clause, the backend failure raised.
save_to_cache_outcomes_raising(item) ==
    { [table |-> put_item(item), returned |-> TRUE, raised |-> FALSE],
      [table |-> table, returned |-> FALSE, raised |-> TRUE] }

\* CacheManager.save_to_cache(...): put_item succeeds and True is returned,
\* or it fails and the except clause returns False.
save_to_cache_outcomes(item) ==
    { [table |-> put_item(item), returned |-> TRUE, raised |-> FALSE],
      [table |-> table, returned |-> FALSE, raised |-> FALSE] }

\* The chunk item _process_single_chunk hands to save_to_cache (lines 193-208).
chunk_item(path, chunk, g) ==
    cache_item(calculate_chunk_hash(path, chunk),
               path \o "#chunk" \o ToString(chunk.chunk_id),
               g.documentation, chunk_metadata(chunk, g), TtlHours,
               Some(chunk.content), store_source_code)

NoFuture == [result |-> None, exception |-> None]
NoObs == [lookup |-> "none", gen |-> "none", save |-> "none"]

\* Mutant: the failure is caught and logged, and no result is appended.
on_task_exception_logged_only(chunk, e) == [raised |-> FALSE, appended |-> << >>]

\* Mutant: the except clause does not catch the failure.
on_task_exception_uncaught(chunk, e) == [raised |-> TRUE, appended |-> << >>]

\* `except Exception as e:` around future.result() (lines 109-118): the
\* failure is caught and a degraded result is appended.
on_task_exception(chunk, e) == [raised |-> FALSE, appended |-> << error_result(chunk, e) >>]

\* Mutant: the loop is left after the first completed future.
as_completed_first_only == Len(yielded) >= 1 \/ Len(chunks) = 0

\* The for loop over as_completed ends when every future has been yielded.
Yielded == { yielded[k] : k \in 1..Len(yielded) }

as_completed_exhausted == Yielded = Futures

\* ------------------------------------------------------------------ Init
\* The processor and its cache manager as constructed, the table empty.
Constructed ==
    /\ max_workers \in 1..MaxPool
    /\ store_source_code \in BOOLEAN
    /\ table = << >>
    /\ now = 0
    /\ calls = 0
    /\ file_path = ""
    /\ chunks = << >>
    /\ cpc = "idle"
    /\ submitted = 0
    /\ tpc = << >>
    /\ cached = << >>
    /\ generated = << >>
    /\ future = << >>
    /\ yielded = << >>
    /\ chunk_results = << >>
    /\ total_cost = PyFloat(0)
    /\ total_tokens = PyInt(0)
    /\ cache_hits = 0
    /\ cache_misses = 0
    /\ output = None
    /\ obs = << >>
    /\ table0 = << >>
    /\ last = None

Init ==
    /\ Constructed
    /\ args = None
    /\ ret = << >>

\* ----------------------------------------------------------- coordinator
\* Every chunk of the invocation was generated and stored.
AllStored == \A i \in Futures : obs[i] = [lookup |-> "miss", gen |-> "ok", save |-> "ok"]

\* What an invocation may be handed: any file at first, then the same file
\* again.
CallInputs ==
    IF calls = 0 THEN Paths \X ChunkLists ELSE {file_path} \X Reprocessed(chunks)

\* process_chunks(file_path, chunks) is entered: lines 72-76.
Enter(path, chunk_list) ==
    /\ cpc \in {"idle", "returned", "raised"}
    /\ calls < MaxCalls
    /\ calls' = calls + 1
    /\ last' = IF cpc = "returned" /\ AllStored
               THEN Some([file_path |-> file_path, chunks |-> chunks, output |-> output[1]])
               ELSE None
    /\ file_path' = path
    /\ chunks' = chunk_list
    /\ cpc' = "submit"
    /\ submitted' = 0
    /\ tpc' = [i \in 1..Len(chunk_list) |-> "unsubmitted"]
    /\ cached' = [i \in 1..Len(chunk_list) |-> None]
    /\ generated' = [i \in 1..Len(chunk_list) |-> None]
    /\ future' = [i \in 1..Len(chunk_list) |-> NoFuture]
    /\ obs' = [i \in 1..Len(chunk_list) |-> NoObs]
    /\ yielded' = << >>
    /\ chunk_results' = << >>
    /\ total_cost' = PyFloat(0)
    /\ total_tokens' = PyInt(0)
    /\ cache_hits' = 0
    /\ cache_misses' = 0
    /\ output' = None
    /\ table0' = table
    /\ UNCHANGED << max_workers, store_source_code, table, now, args, ret >>

\* process_chunks is called with a chunk list as the chunker produces it.
Call(path, chunk_list) ==
    /\ << path, chunk_list >> \in CallInputs
    /\ Enter(path, chunk_list)

\* executor.submit(self._process_single_chunk, file_path, chunk), in list
\* order (lines 80-87).
Submit ==
    /\ cpc = "submit"
    /\ submitted < Len(chunks)
    /\ submitted' = submitted + 1
    /\ tpc' = [tpc EXCEPT ![submitted + 1] = "queued"]
    /\ UNCHANGED << max_workers, store_source_code, table, now, calls, file_path,
                    chunks, cpc, cached, generated, future, yielded, chunk_results,
                    total_cost, total_tokens, cache_hits, cache_misses, output,
                    obs, table0, last, args, ret >>

\* The dict comprehension is complete: the as_completed loop begins (line 89).
AsCompleted ==
    /\ cpc = "submit"
    /\ submitted = Len(chunks)
    /\ cpc' = "as_completed"
    /\ UNCHANGED << max_workers, store_source_code, table, now, calls, file_path,
                    chunks, submitted, tpc, cached, generated, future, yielded,
                    chunk_results, total_cost, total_tokens, cache_hits,
                    cache_misses, output, obs, table0, last, args, ret >>

\* One iteration of the loop for a future that returned (lines 93-102).
ConsumeResult(i) ==
    /\ cpc = "as_completed"
    /\ i \in Futures \ Yielded
    /\ tpc[i] = "finished"
    /\ future[i].exception = None
    /\ LET result == future[i].result[1]
       IN  /\ chunk_results' = Append(chunk_results, result)
           /\ total_cost' = Add(total_cost, result.cost)
           /\ total_tokens' = Add(total_tokens, result.tokens)
           /\ cache_hits' = IF result.cached THEN cache_hits + 1 ELSE cache_hits
           /\ cache_misses' = IF result.cached THEN cache_misses ELSE cache_misses + 1
    /\ yielded' = Append(yielded, i)
    /\ UNCHANGED << max_workers, store_source_code, table, now, calls, file_path,
                    chunks, cpc, submitted, tpc, cached, generated, future,
                    output, obs, table0, last, args, ret >>

\* One iteration of the loop for a future that raised (lines 109-118).
ConsumeException(i) ==
    /\ cpc = "as_completed"
    /\ i \in Futures \ Yielded
    /\ tpc[i] = "finished"
    /\ future[i].exception # None
    /\ LET h == on_task_exception(chunks[i], future[i].exception[1])
       IN  /\ chunk_results' = chunk_results \o h.appended
           /\ cpc' = IF h.raised THEN "raised" ELSE cpc
    /\ yielded' = Append(yielded, i)
    /\ UNCHANGED << max_workers, store_source_code, table, now, calls, file_path,
                    chunks, submitted, tpc, cached, generated, future,
                    total_cost, total_tokens, cache_hits, cache_misses,
                    output, obs, table0, last, args, ret >>

\* The loop ends and the with block is left: shutdown(wait=True) joins the
\* workers (line 119).
ExitPool ==
    /\ cpc = "as_completed"
    /\ as_completed_exhausted
    /\ \A i \in Futures : tpc[i] = "finished"
    /\ cpc' = "sort"
    /\ UNCHANGED << max_workers, store_source_code, table, now, calls, file_path,
                    chunks, submitted, tpc, cached, generated, future, yielded,
                    chunk_results, total_cost, total_tokens, cache_hits,
                    cache_misses, output, obs, table0, last, args, ret >>

\* chunk_results.sort(key=lambda x: x['chunk_id']) (line 121).
Sort ==
    /\ cpc = "sort"
    /\ chunk_results' = sort_by_chunk_id(chunk_results)
    /\ cpc' = "merge"
    /\ UNCHANGED << max_workers, store_source_code, table, now, calls, file_path,
                    chunks, submitted, tpc, cached, generated, future, yielded,
                    total_cost, total_tokens, cache_hits, cache_misses,
                    output, obs, table0, last, args, ret >>

\* Merge, metrics and return (lines 124-142).
MergeAndReturn ==
    /\ cpc = "merge"
    /\ IF merge_raises(chunk_results, chunks)
       THEN /\ cpc' = "raised"
            /\ output' = None
       ELSE /\ cpc' = "returned"
            /\ output' = Some([merged_doc |-> merge_chunk_documentation(file_path, chunk_results, chunks),
                               metrics |-> metrics_of(chunks)])
    /\ UNCHANGED << max_workers, store_source_code, table, now, calls, file_path,
                    chunks, submitted, tpc, cached, generated, future, yielded,
                    chunk_results, total_cost, total_tokens, cache_hits,
                    cache_misses, obs, table0, last, args, ret >>

\* ---------------------------------------------------------------- workers
\* A free worker thread takes the oldest queued work item and enters
\* _process_single_chunk (lines 159-160).
Start(i) ==
    /\ i \in Futures
    /\ NextQueued(i)
    /\ WorkerFree
    /\ tpc' = [tpc EXCEPT ![i] = "get_cached"]
    /\ UNCHANGED << max_workers, store_source_code, table, now, calls, file_path,
                    chunks, cpc, submitted, cached, generated, future, yielded,
                    chunk_results, total_cost, total_tokens, cache_hits,
                    cache_misses, output, obs, table0, last, args, ret >>

\* cached = self.cache_manager.get_cached(chunk_hash), and on a hit the
\* return of lines 165-177.
GetCached(i) ==
    /\ i \in Futures
    /\ tpc[i] = "get_cached"
    /\ \E o \in get_cached_outcomes(ChunkKey(i)) :
        /\ obs' = [obs EXCEPT ![i].lookup = o.seen]
        /\ IF o.raised
           THEN /\ tpc' = [tpc EXCEPT ![i] = "finished"]
                /\ future' = [future EXCEPT ![i].exception = Some(GenError)]
                /\ cached' = cached
           ELSE /\ cached' = [cached EXCEPT ![i] = o.value]
                /\ IF is_hit(o.value)
                   THEN /\ tpc' = [tpc EXCEPT ![i] = "finished"]
                        /\ future' = [future EXCEPT ![i].result =
                                          Some(hit_result(chunks[i], o.value[1]))]
                   ELSE /\ tpc' = [tpc EXCEPT ![i] = "generate"]
                        /\ future' = future
    /\ UNCHANGED << max_workers, store_source_code, table, now, calls, file_path,
                    chunks, cpc, submitted, generated, yielded, chunk_results,
                    total_cost, total_tokens, cache_hits, cache_misses, output,
                    table0, last, args, ret >>

\* self.claude_client.generate_documentation(...) returns (lines 185-190).
Generate(i) ==
    /\ i \in Futures
    /\ tpc[i] = "generate"
    /\ \E g \in GenOutputs :
        generated' = [generated EXCEPT ![i] = Some(g)]
    /\ obs' = [obs EXCEPT ![i].gen = "ok"]
    /\ tpc' = [tpc EXCEPT ![i] = "save_to_cache"]
    /\ UNCHANGED << max_workers, store_source_code, table, now, calls, file_path,
                    chunks, cpc, submitted, cached, future, yielded, chunk_results,
                    total_cost, total_tokens, cache_hits, cache_misses, output,
                    table0, last, args, ret >>

\* generate_documentation raises: the exception leaves _process_single_chunk
\* and is set on the future.
GenerateFails(i) ==
    /\ i \in Futures
    /\ tpc[i] = "generate"
    /\ obs' = [obs EXCEPT ![i].gen = "raise"]
    /\ tpc' = [tpc EXCEPT ![i] = "finished"]
    /\ future' = [future EXCEPT ![i].exception = Some(GenError)]
    /\ UNCHANGED << max_workers, store_source_code, table, now, calls, file_path,
                    chunks, cpc, submitted, cached, generated, yielded,
                    chunk_results, total_cost, total_tokens, cache_hits,
                    cache_misses, output, table0, last, args, ret >>

\* self.cache_manager.save_to_cache(...) and the return of lines 210-217.
SaveToCache(i) ==
    /\ i \in Futures
    /\ tpc[i] = "save_to_cache"
    /\ \E o \in save_to_cache_outcomes(chunk_item(file_path, chunks[i], generated[i][1])) :
        /\ table' = o.table
        /\ obs' = [obs EXCEPT ![i].save = IF o.returned THEN "ok" ELSE "fail"]
        /\ future' = IF o.raised
                     THEN [future EXCEPT ![i].exception = Some(GenError)]
                     ELSE [future EXCEPT ![i].result =
                               Some(miss_result(chunks[i], generated[i][1]))]
    /\ tpc' = [tpc EXCEPT ![i] = "finished"]
    /\ UNCHANGED << max_workers, store_source_code, now, calls, file_path,
                    chunks, cpc, submitted, cached, generated, yielded,
                    chunk_results, total_cost, total_tokens, cache_hits,
                    cache_misses, output, table0, last, args, ret >>

Next ==
    \/ \E arg \in CallInputs : Call(arg[1], arg[2])
    \/ Submit
    \/ AsCompleted
    \/ \E i \in 1..MaxChunks : ConsumeResult(i)
    \/ \E i \in 1..MaxChunks : ConsumeException(i)
    \/ ExitPool
    \/ Sort
    \/ MergeAndReturn
    \/ \E i \in 1..MaxChunks : Start(i)
    \/ \E i \in 1..MaxChunks : GetCached(i)
    \/ \E i \in 1..MaxChunks : Generate(i)
    \/ \E i \in 1..MaxChunks : GenerateFails(i)
    \/ \E i \in 1..MaxChunks : SaveToCache(i)

Spec == Init /\ [][Next]_vars

\* ------------------------------------------------- direct calls of the keys
\* Two requests are drawn; the first one's miss path stores its entry, then
\* the second one's key is looked up.
MaxOrdinal == 1

KeyPaths == {"a.py", "a.py::0::b.py"}
KeyContents == {"A", "a.py::0::A", "b.py::0::A"}

\* A request for one chunk of a file, and a request for a whole small file.
ChunkRequest(path, k, c) == [kind |-> "chunk", path |-> path, chunk |-> CodeChunk(k, c)]
FileRequest(path, c) == [kind |-> "file", path |-> path, content |-> c]

Requests ==
    { ChunkRequest(p, k, c) : p \in KeyPaths, k \in 0..MaxOrdinal, c \in KeyContents }
        \cup { FileRequest("a.py", c) : c \in KeyContents }

\* file_hash of handle_small_file (line 96), chunk_hash of
\* _process_single_chunk (line 160).
KeyOf(request) ==
    IF request.kind = "chunk"
    THEN calculate_chunk_hash(request.path, request.chunk)
    ELSE calculate_hash(request.content)

\* The item handle_small_file hands to save_to_cache (lines 148-163).
file_item(path, file_content, g) ==
    cache_item(calculate_hash(file_content), path, g.documentation,
               [cost |-> g.total_cost, tokens |-> g.total_tokens,
                analysis |-> [ty |-> "str", v |-> "analysis"],
                processing_time |-> PyFloat(1)],
               TtlHours, Some(file_content), TRUE)

ItemOf(request, g) ==
    IF request.kind = "chunk"
    THEN chunk_item(request.path, request.chunk, g)
    ELSE file_item(request.path, request.content, g)

InitKeys ==
    /\ Constructed
    /\ args \in { Some([first |-> x, second |-> y]) : x \in Requests, y \in Requests }
    /\ ret = << >>

\* The first request misses, generates and calls save_to_cache.
StoreFirst ==
    /\ Len(ret) = 0
    /\ \E g \in GenOutputs :
        \E o \in save_to_cache_outcomes(ItemOf(args[1].first, g)) :
            /\ table' = o.table
            /\ ret' = Append(ret, o.returned)
    /\ UNCHANGED << max_workers, store_source_code, now, calls, file_path, chunks,
                    cpc, submitted, tpc, cached, generated, future, yielded,
                    chunk_results, total_cost, total_tokens, cache_hits,
                    cache_misses, output, obs, table0, last, args >>

\* The second request calls get_cached with its key.
LookupSecond ==
    /\ Len(ret) = 1
    /\ \E o \in get_cached_outcomes(KeyOf(args[1].second)) :
        ret' = Append(ret, o.value)
    /\ UNCHANGED << max_workers, store_source_code, table, now, calls, file_path,
                    chunks, cpc, submitted, tpc, cached, generated, future, yielded,
                    chunk_results, total_cost, total_tokens, cache_hits,
                    cache_misses, output, obs, table0, last, args >>

NextKeys == StoreFirst \/ LookupSecond

SpecKeys == InitKeys /\ [][NextKeys]_vars

\* -------------------------------------------- direct calls of save_to_cache
MaxSaves == 2

\* The arguments save_to_cache is called with.
SaveArgs ==
    [file_hash : { calculate_hash(c) : c \in Contents },
     file_path : Paths,
     documentation : { g.documentation : g \in GenOutputs },
     metadata : { [cost |-> g.total_cost, tokens |-> g.total_tokens] : g \in GenOutputs },
     ttl_hours : {1, TtlHours},
     source_code : {None, Some(""), Some("abc")},
     store_source : BOOLEAN]

\* CacheManager.save_to_cache(a.file_hash, ..., a.store_source) is called
\* and returns.
SaveToCacheCall(a) ==
    /\ Len(ret) < MaxSaves
    /\ \E o \in save_to_cache_outcomes(
                    cache_item(a.file_hash, a.file_path, a.documentation, a.metadata,
                               a.ttl_hours, a.source_code, a.store_source)) :
        /\ table' = o.table
        /\ ret' = Append(ret, o.returned)
    /\ args' = Some(a)
    /\ UNCHANGED << max_workers, store_source_code, now, calls, file_path, chunks,
                    cpc, submitted, tpc, cached, generated, future, yielded,
                    chunk_results, total_cost, total_tokens, cache_hits,
                    cache_misses, output, obs, table0, last >>

NextCache == \E a \in SaveArgs : SaveToCacheCall(a)

SpecCache == Init /\ [][NextCache]_vars

\* ------------------------------------------------------- time and the store
MaxTicks == 1

\* Between two invocations the clock read by time.time() passes the
\* lifetime save_to_cache gives an entry.
Tick ==
    /\ cpc \in {"returned", "raised"}
    /\ now < MaxTicks * (TtlHours * 3600 + 1)
    /\ now' = now + TtlHours * 3600 + 1
    /\ UNCHANGED << max_workers, store_source_code, table, calls, file_path, chunks,
                    cpc, submitted, tpc, cached, generated, future, yielded,
                    chunk_results, total_cost, total_tokens, cache_hits,
                    cache_misses, output, obs, table0, last, args, ret >>

\* The store removes an entry whose ttl attribute is in the past, at a time
\* of its own choosing.
Expire(key) ==
    /\ cpc \in {"returned", "raised"}
    /\ key \in DOMAIN table
    /\ table[key].ttl < now
    /\ table' = [k \in DOMAIN table \ {key} |-> table[k]]
    /\ UNCHANGED << max_workers, store_source_code, now, calls, file_path, chunks,
                    cpc, submitted, tpc, cached, generated, future, yielded,
                    chunk_results, total_cost, total_tokens, cache_hits,
                    cache_misses, output, obs, table0, last, args, ret >>

NextTtl ==
    \/ Next
    \/ Tick
    \/ \E key \in DOMAIN table : Expire(key)

\* The processor as the Lambda module builds it: source retention on, and a
\* pool no smaller than the chunk lists here.
InitTtl ==
    /\ Init
    /\ max_workers = MaxPool
    /\ store_source_code

SpecTtl == InitTtl /\ [][NextTtl]_vars

\* ------------------------------------------------------------- scheduling
\* The coordinator thread and every worker thread keep running, and each
\* blocking call (lookup, generator, store) returns or raises in the end.
\* Nothing obliges a caller to invoke process_chunks again.
Fairness ==
    /\ WF_vars(Submit)
    /\ WF_vars(AsCompleted)
    /\ WF_vars(ExitPool)
    /\ WF_vars(Sort)
    /\ WF_vars(MergeAndReturn)
    /\ \A i \in 1..MaxChunks :
        /\ WF_vars(ConsumeResult(i))
        /\ WF_vars(ConsumeException(i))
        /\ WF_vars(Start(i))
        /\ WF_vars(GetCached(i))
        /\ WF_vars(Generate(i) \/ GenerateFails(i))
        /\ WF_vars(SaveToCache(i))

\* Source retention is on, as the Lambda module sets it; the pool is of any
\* size up to MaxPool.
InitLive ==
    /\ Init
    /\ store_source_code

SpecLive == InitLive /\ [][Next]_vars /\ Fairness

\* ------------------------------------------- chunk lists in any order
\* Chunk lists with distinct ordinals 0..n-1, in any order.
AnyOrderListsOf(n) ==
    { [i \in 1..n |-> CodeChunk(ord[i], txt[i])] :
        ord \in { f \in [1..n -> 0..(n - 1)] : \A i, j \in 1..n : f[i] = f[j] => i = j },
        txt \in [1..n -> Contents] }

AnyOrderLists == UNION { AnyOrderListsOf(n) : n \in 0..MaxChunks }

\* Any such list of a file at first, then the same list again.
AnyOrderInputs ==
    IF calls = 0 THEN Paths \X AnyOrderLists ELSE { << file_path, chunks >> }

\* process_chunks is called by a caller that orders the list as it likes.
CallAnyOrder(path, chunk_list) ==
    /\ << path, chunk_list >> \in AnyOrderInputs
    /\ Enter(path, chunk_list)

NextAnyOrder ==
    \/ \E arg \in AnyOrderInputs : CallAnyOrder(arg[1], arg[2])
    \/ Submit
    \/ AsCompleted
    \/ \E i \in 1..MaxChunks : ConsumeResult(i)
    \/ \E i \in 1..MaxChunks : ConsumeException(i)
    \/ ExitPool
    \/ Sort
    \/ MergeAndReturn
    \/ \E i \in 1..MaxChunks : Start(i)
    \/ \E i \in 1..MaxChunks : GetCached(i)
    \/ \E i \in 1..MaxChunks : Generate(i)
    \/ \E i \in 1..MaxChunks : GenerateFails(i)
    \/ \E i \in 1..MaxChunks : SaveToCache(i)

SpecAnyOrder == InitTtl /\ [][NextAnyOrder]_vars

\* ---------------------------------------------------------- lambda_handler
\* json.dumps raises TypeError on a Decimal.
json_dumps_raises(data) ==
    \/ data.total_cost.ty = "Decimal"
    \/ data.total_tokens.ty = "Decimal"

\* The result handle_large_file builds from what process_chunks returned
\* (lines 187-205).
large_file_result(path, chunk_list, out) ==
    [file_path |-> path,
     status |-> "completed",
     documentation |-> out.merged_doc,
     total_cost |-> out.metrics.total_cost,
     total_tokens |-> out.metrics.total_tokens,
     chunked |-> TRUE,
     chunking_info |-> [total_chunks |-> Len(chunk_list),
                        cache_hits |-> out.metrics.cache_hits,
                        cache_misses |-> out.metrics.cache_misses,
                        cache_hit_rate |-> out.metrics.cache_hit_rate]]

success_response(data) ==
    [statusCode |-> 200, body |-> [success |-> TRUE, data |-> data]]

error_response(message, status_code) ==
    [statusCode |-> status_code, body |-> [success |-> FALSE, error |-> message]]

\* What lambda_handler returns for a chunked request once process_chunks
\* has ended: an exception from it, or from json.dumps, reaches the except
\* clause of lambda_handler.
lambda_handler ==
    IF cpc = "raised"
    THEN error_response(GenError, 500)
    ELSE LET result == large_file_result(file_path, chunks, output[1])
         IN  IF json_dumps_raises(result)
             THEN error_response("TypeError", 500)
             ELSE success_response(result)

\* ================================================================ claims
\* The documentation a finished chunk task contributes: its result's text,
\* or the error marker when the task raised.
DocOf(i) ==
    IF future[i].exception = None
    THEN future[i].result[1].documentation
    ELSE error_result(chunks[i], future[i].exception[1]).documentation

\* The text the merge puts under a heading for documentation `doc`.
SectionText(doc) == merge_section(chunks[1], [documentation |-> doc]).text

AscendingFromZero == \A i \in 1..Len(chunks) : chunks[i].chunk_id = i - 1

\* C1: for a chunk list with ordinals contiguous from zero and ascending,
\* whatever the completion order and whatever mix of hits, misses and
\* failures, the merged document holds one section per chunk, the headings in
\* strictly ascending ordinal order, and under the heading of ordinal k the
\* documentation of the chunk with ordinal k.
C1_SectionsInOrdinalOrder ==
    (cpc = "returned" /\ AscendingFromZero) =>
        LET sections == output[1].merged_doc.sections
        IN  /\ Len(sections) = Len(chunks)
            /\ \A i \in 1..Len(sections) :
                /\ sections[i].chunk_no = chunks[i].chunk_id + 1
                /\ chunk_results[i].chunk_id = chunks[i].chunk_id
                /\ sections[i].text = SectionText(DocOf(i))
            /\ \A i, j \in 1..Len(sections) :
                i < j => sections[i].chunk_no < sections[j].chunk_no

\* C1 witness: two chunks, the second finished first, one a cache hit and
\* the other a failure, and the document has been returned.
C1_Witness ==
    /\ cpc = "returned"
    /\ yielded = << 2, 1 >>
    /\ obs[2].lookup = "hit"
    /\ obs[1].gen = "raise"

\* C2: when process_chunks is at the sort and merge steps, the result
\* collection holds exactly one ChunkResult per input chunk, whichever
\* tasks hit, missed or failed.
C2_OneResultPerChunk ==
    cpc \in {"sort", "merge"} =>
        /\ Len(chunk_results) = Len(chunks)
        /\ \A i \in 1..Len(chunks) :
            Cardinality({ k \in 1..Len(chunk_results) :
                            chunk_results[k].chunk_id = chunks[i].chunk_id }) = 1

\* C2 witness: at the merge step with one failed task and a sibling that
\* produced a generated result.
C2_Witness ==
    /\ cpc = "merge"
    /\ Len(chunks) = 2
    /\ \E i, j \in Futures :
        /\ obs[i].gen = "raise"
        /\ obs[j].gen = "ok"
        /\ future[j].result # None

\* C3: the generator is invoked for a chunk only after the lookup of its key
\* returned absent; a task whose lookup hit finishes with a result built
\* from the cached item (cached true, cost 0), without a generator call and
\* without a cache write, its item left as it was.
C3_NoGeneratorOnHit ==
    \A i \in Futures :
        /\ obs[i].gen # "none" => (obs[i].lookup \in {"miss", "fault"} /\ cached[i] = None)
        /\ obs[i].save # "none" => obs[i].gen = "ok"
        /\ obs[i].lookup = "hit" =>
            /\ tpc[i] = "finished"
            /\ obs[i].gen = "none" /\ obs[i].save = "none"
            /\ generated[i] = None
            /\ ChunkKey(i) \in DOMAIN table
            /\ table[ChunkKey(i)] = cached[i][1]
            /\ future[i].exception = None
            /\ future[i].result # None
            /\ future[i].result[1].cached
            /\ future[i].result[1].cost = PyFloat(0)
            /\ future[i].result[1].documentation = cached[i][1].documentation

\* C3 witness: one chunk was served from the cache while its sibling was
\* generated.
C3_Witness ==
    \E i, j \in Futures :
        /\ obs[i].lookup = "hit" /\ tpc[i] = "finished"
        /\ obs[j].gen = "ok"

\* C5: the number of chunk tasks in flight (in the lookup, the generator
\* call or the store) never exceeds max_workers.
C5_InFlightBounded == Cardinality(InFlight) <= max_workers

\* C5 witness: every worker is busy and a submitted chunk waits in the queue.
C5_Witness ==
    /\ Cardinality(InFlight) = max_workers
    /\ \E i \in Futures : tpc[i] = "queued"

\* The entry a table holds under a key, as an optional value.
TableAt(t, key) == IF key \in DOMAIN t THEN Some(t[key]) ELSE None

\* The invocation re-processes, with unchanged arguments, the file of an
\* invocation that generated and stored every chunk, and the entries of that
\* invocation are in the store.
WarmRerun ==
    /\ last # None
    /\ last[1].file_path = file_path
    /\ last[1].chunks = chunks
    /\ \A i \in Futures : ChunkKey(i) \in DOMAIN table0

FullyCached ==
    /\ \A i \in Futures : obs[i].gen = "none"
    /\ cache_hits = Len(chunks)
    /\ output[1].metrics.cache_hits = Len(chunks)
    /\ output[1].merged_doc = last[1].output.merged_doc

\* C4 as stated: a second run over the unchanged file of a fully generated
\* and stored first run makes no generator call, reports N cache hits and
\* returns the first run's document.
C4_AsStated == (cpc = "returned" /\ WarmRerun) => FullyCached

\* C4 as amended: the same, for a second run in which no cache lookup fails
\* in the backend; and in any such run no chunk whose lookup was answered is
\* ever handed to the generator.
C4_WarmRerunIsFree ==
    WarmRerun =>
        /\ \A i \in Futures : obs[i].lookup # "fault" => obs[i].gen = "none"
        /\ (cpc = "returned" /\ \A i \in Futures : obs[i].lookup # "fault") => FullyCached

\* C4 witness: a warm second run over two chunks has returned, every lookup
\* answered.
C4_Witness ==
    /\ cpc = "returned"
    /\ WarmRerun
    /\ Len(chunks) = 2
    /\ \A i \in Futures : obs[i].lookup = "hit"

\* A ChunkResult is the degraded result of chunk i.
Degraded(r, i) ==
    /\ r.chunk_id = chunks[i].chunk_id
    /\ Len(r.documentation) = 1
    /\ r.documentation[1][1] = "<!-- Error processing chunk "
    /\ r.cost = PyFloat(0)
    /\ r.tokens = PyInt(0)
    /\ r.cached = FALSE

\* The result a task that did not fail owes to its own three calls alone.
OwnResult(j) ==
    IF obs[j].lookup = "hit"
    THEN Some(hit_result(chunks[j], table0[ChunkKey(j)]))
    ELSE Some(miss_result(chunks[j], generated[j][1]))

\* The cache entry a task leaves under its key, by its own three calls alone.
OwnEntry(j) ==
    IF obs[j].save = "ok"
    THEN Some(stored_item(chunk_item(file_path, chunks[j], generated[j][1])))
    ELSE TableAt(table0, ChunkKey(j))

\* C6: a chunk whose generator call failed gets a degraded result (error
\* marker, cost 0, tokens 0, cached false) and no cache write; and every
\* task reads, returns and stores what its own lookup, generation and store
\* determine, so the results and entries of the siblings are what they are
\* in a run where that chunk does not fail.
C6_FailureIsContained ==
    /\ \A i \in Futures :
        obs[i].gen = "raise" =>
            /\ tpc[i] = "finished"
            /\ future[i].result = None
            /\ obs[i].save = "none"
            /\ TableAt(table, ChunkKey(i)) = TableAt(table0, ChunkKey(i))
            /\ i \in Yielded =>
                /\ \E k \in 1..Len(chunk_results) : Degraded(chunk_results[k], i)
                /\ \A k \in 1..Len(chunk_results) :
                    chunk_results[k].chunk_id = chunks[i].chunk_id
                        => Degraded(chunk_results[k], i)
    /\ \A j \in Futures :
        /\ obs[j].lookup \in {"hit", "miss"} => cached[j] = TableAt(table0, ChunkKey(j))
        /\ (tpc[j] = "finished" /\ obs[j].gen # "raise") =>
            /\ future[j].exception = None
            /\ future[j].result = OwnResult(j)
        /\ TableAt(table, ChunkKey(j)) = OwnEntry(j)

\* C6 witness: of two chunks with the same text one failed in the generator
\* and the other was generated and stored; both results are collected.
C6_Witness ==
    /\ Len(chunks) = 2
    /\ chunks[1].content = chunks[2].content
    /\ Len(yielded) = 2
    /\ \E i, j \in Futures :
        /\ obs[i].gen = "raise"
        /\ obs[j].save = "ok"

\* C7: a backend failure in the lookup is not raised: get_cached returns
\* None and the task goes on as on a miss, to the generator and, when that
\* returns, to the store and a non-degraded result with cached false.
C7_LookupFaultIsMiss ==
    \A i \in Futures :
        obs[i].lookup = "fault" =>
            /\ cached[i] = None
            /\ tpc[i] \in {"generate", "save_to_cache", "finished"}
            /\ tpc[i] = "save_to_cache" => obs[i].gen = "ok"
            /\ tpc[i] = "finished" =>
                /\ obs[i].gen \in {"ok", "raise"}
                /\ future[i].exception # None => obs[i].gen = "raise"
                /\ obs[i].gen = "ok" =>
                    /\ obs[i].save \in {"ok", "fail"}
                    /\ future[i].exception = None
                    /\ future[i].result = Some(miss_result(chunks[i], generated[i][1]))
                    /\ future[i].result[1].cached = FALSE

\* C7 witness: a task whose lookup failed in the backend, over a key the
\* store holds, has generated, stored and finished.
C7_Witness ==
    \E i \in Futures :
        /\ obs[i] = [lookup |-> "fault", gen |-> "ok", save |-> "ok"]
        /\ ChunkKey(i) \in DOMAIN table0
        /\ tpc[i] = "finished"

\* A task whose cache write failed keeps the generator's result.
KeepsGenerated(i) ==
    /\ tpc[i] = "finished"
    /\ future[i].exception = None
    /\ future[i].result # None
    /\ future[i].result[1].documentation = generated[i][1].documentation
    /\ future[i].result[1].cost = generated[i][1].total_cost
    /\ future[i].result[1].tokens = generated[i][1].total_tokens
    /\ future[i].result[1].cached = FALSE

\* C8 as stated: a failed cache write is not raised, the ChunkResult keeps
\* the generator's documentation, cost and tokens with cached false, and the
\* store holds no entry for the key.
C8_AsStated ==
    \A i \in Futures :
        obs[i].save = "fail" =>
            /\ KeepsGenerated(i)
            /\ ChunkKey(i) \notin DOMAIN table

\* C8 as amended: a failed cache write is not raised, the ChunkResult keeps
\* the generator's documentation, cost and tokens with cached false, and the
\* store holds under the key what it held before: no entry when the lookup
\* was a miss.
C8_FailedWriteChangesNothing ==
    \A i \in Futures :
        obs[i].save = "fail" =>
            /\ KeepsGenerated(i)
            /\ TableAt(table, ChunkKey(i)) = TableAt(table0, ChunkKey(i))
            /\ obs[i].lookup = "miss" => ChunkKey(i) \notin DOMAIN table

\* C8 witness: a chunk missed, was generated, and its cache write failed.
C8_Witness ==
    \E i \in Futures :
        /\ obs[i] = [lookup |-> "miss", gen |-> "ok", save |-> "fail"]
        /\ tpc[i] = "finished"

\* C9: process_chunks never raises: the loop absorbs every task failure, the
\* merge finds a chunk for every result, and what is returned is a pair
\* (merged document, metrics).
C9_NeverRaises ==
    /\ cpc # "raised"
    /\ cpc = "merge" => ~merge_raises(chunk_results, chunks)
    /\ cpc = "returned" =>
        /\ output # None
        /\ DOMAIN output[1] = {"merged_doc", "metrics"}

\* C9 witness: process_chunks returned from a run with a lookup fault, a
\* generator failure and a failed cache write.
C9_Witness ==
    /\ cpc = "returned"
    /\ \E i, j \in Futures :
        /\ obs[i].lookup = "fault" /\ obs[i].gen = "raise"
        /\ obs[j].save = "fail"

\* C10: no result is consumed before every chunk is submitted; sort, merge
\* and return happen only when every task has finished and been collected;
\* the returned document has a section for every chunk.
C10_FullBarrier ==
    /\ (yielded # << >> \/ chunk_results # << >>) =>
        /\ submitted = Len(chunks)
        /\ \A i \in Futures : tpc[i] # "unsubmitted"
    /\ cpc \in {"sort", "merge", "returned"} =>
        /\ \A i \in Futures : tpc[i] = "finished"
        /\ Yielded = Futures
        /\ Len(chunk_results) = Len(chunks)
    /\ cpc = "returned" => Len(output[1].merged_doc.sections) = Len(chunks)

\* C10 witness: one result has been collected while a sibling task is still
\* in flight, and the coordinator is waiting in the loop.
C10_Witness ==
    /\ cpc = "as_completed"
    /\ Len(chunk_results) = 1
    /\ InFlight # {}

\* The sum of the values of one numeric field over a list of ChunkResults.
RECURSIVE SumOf(_, _)
SumOf(results, field) ==
    IF results = << >> THEN 0
    ELSE results[1][field].v + SumOf(Tail(results), field)

\* The results of the chunk tasks that did not fail.
Succeeded(results) == SelectSeq(results, LAMBDA r : r.error = None)

\* C11: the running totals are the sums of cost and tokens over the results
\* collected so far, in whatever order they completed, and the returned
\* total_cost and total_tokens are the sums over all chunk results; a failed
\* chunk adds 0 to both and a cache hit adds cost 0, so the totals are the
\* sums over the chunks that did not fail.
C11_TotalsAreSums ==
    /\ total_cost.v = SumOf(chunk_results, "cost")
    /\ total_tokens.v = SumOf(chunk_results, "tokens")
    /\ \A k \in 1..Len(chunk_results) :
        /\ chunk_results[k].error # None =>
            (chunk_results[k].cost.v = 0 /\ chunk_results[k].tokens.v = 0)
        /\ chunk_results[k].cached => chunk_results[k].cost.v = 0
    /\ cpc = "returned" =>
        /\ output[1].metrics.total_cost.v = SumOf(Succeeded(chunk_results), "cost")
        /\ output[1].metrics.total_tokens.v = SumOf(Succeeded(chunk_results), "tokens")
        /\ output[1].metrics.total_cost.ty = "float"

\* C11 witness: a failed chunk and a generated one were summed, the later
\* chunk first, and the totals have been returned.
C11_Witness ==
    /\ cpc = "returned"
    /\ yielded = << 2, 1 >>
    /\ obs[2].gen = "raise"
    /\ obs[1].gen = "ok"
    /\ total_cost.v > 0

\* The fraction r equals a/b (b positive).
EqualsRatio(r, a, b) == r.den > 0 /\ r.num * b = a * r.den

\* C12 as stated: the reported hit rate is cache hits divided by the number
\* of chunks, and 0 for an empty chunk list.
C12_AsStated ==
    cpc = "returned" =>
        IF Len(chunks) = 0
        THEN EqualsRatio(output[1].metrics.cache_hit_rate, 0, 1)
        ELSE EqualsRatio(output[1].metrics.cache_hit_rate, cache_hits, Len(chunks))

\* C12 as amended: the reported hit rate is a percentage, 100 times cache
\* hits divided by the number of chunks, and 0 for an empty chunk list.
C12_HitRateIsPercentage ==
    cpc = "returned" =>
        /\ output[1].metrics.cache_hits = cache_hits
        /\ IF Len(chunks) = 0
           THEN EqualsRatio(output[1].metrics.cache_hit_rate, 0, 1)
           ELSE EqualsRatio(output[1].metrics.cache_hit_rate, 100 * cache_hits, Len(chunks))

\* C12 witness: a run over two chunks returned with exactly one cache hit.
C12_Witness ==
    /\ cpc = "returned"
    /\ Len(chunks) = 2
    /\ cache_hits = 1

\* The metrics of a run that did nothing.
ZeroMetrics ==
    [total_cost |-> PyFloat(0), total_tokens |-> PyInt(0), total_chunks |-> 0,
     cache_hits |-> 0, cache_misses |-> 0,
     cache_hit_rate |-> [num |-> 0, den |-> 1]]

\* C13: process_chunks on an empty chunk list returns without error; no
\* task exists, so nothing is looked up, generated or written; the merged
\* document is the header alone and every metric is zero.
C13_EmptyListIsHeaderOnly ==
    (calls > 0 /\ chunks = << >>) =>
        /\ cpc # "raised"
        /\ tpc = << >> /\ obs = << >> /\ chunk_results = << >>
        /\ table = table0
        /\ cpc = "returned" =>
            /\ output[1].merged_doc =
                   [title |-> file_path, processed_in |-> 0, sections |-> << >>]
            /\ output[1].metrics = ZeroMetrics

\* C13 witness: a run over the empty chunk list has returned.
C13_Witness ==
    /\ cpc = "returned"
    /\ chunks = << >>
    /\ output # None

\* The chunks whose text differs from the previous, fully stored run of the
\* same file.
Changed ==
    IF last = None \/ last[1].file_path # file_path
                   \/ Len(last[1].chunks) # Len(chunks)
    THEN {}
    ELSE { i \in Futures : chunks[i] # last[1].chunks[i] }

\* This run follows a run that generated and stored every chunk, and differs
\* from it in the text of exactly one chunk.
OneChunkEdited == calls > 1 /\ Cardinality(Changed) = 1

\* The chunks the generator was called for in this run.
GeneratorCalls == { i \in Futures : obs[i].gen # "none" }

OnlyTheEditedRegenerated ==
    /\ GeneratorCalls = Changed
    /\ cache_hits = Len(chunks) - 1
    /\ output[1].metrics.cache_hits = Len(chunks) - 1

\* The edit changed the key of the edited chunk and of no other chunk.
OnlyTheEditedRekeyed ==
    \A i \in Futures :
        (ChunkKey(i) = calculate_chunk_hash(file_path, last[1].chunks[i]))
            <=> (i \notin Changed)

KeyAtoms == {"a.py", "b.py", "A", "0", "1"}
KeyParts == KeyAtoms \cup { x \o "::" \o y : x \in KeyAtoms, y \in KeyAtoms }
HasSeparator(s) == \E x \in KeyParts, y \in KeyParts : s = x \o "::" \o y

First == args[1].first
Second == args[1].second

\* Both requests are for chunks, and they differ in file path or in ordinal.
TwoChunksApart ==
    /\ First.kind = "chunk" /\ Second.kind = "chunk"
    /\ \/ First.path # Second.path
       \/ First.chunk.chunk_id # Second.chunk.chunk_id

\* The two requests have different keys, and the lookup of the second did
\* not return the entry of the first.
KeysApart ==
    /\ KeyOf(First) # KeyOf(Second)
    /\ Len(ret) = 2 => ret[2] = None

\* C15 as stated: two chunks that differ in file path or in ordinal never
\* have the same cache-key input, whatever their content.
C15_AsStated == TwoChunksApart => KeysApart

\* C15 as amended: two chunks of one file that differ in ordinal never have
\* the same cache-key input, and neither do two chunks of different files
\* when their content is identical or when neither path contains '::'.
C15_DistinctChunksDistinctKeys ==
    ( /\ TwoChunksApart
      /\ \/ First.path = Second.path
         \/ First.chunk.content = Second.chunk.content
         \/ ~HasSeparator(First.path) /\ ~HasSeparator(Second.path) )
    => KeysApart

\* C15 witness: the same text at two ordinals of one file; the first was
\* stored and the lookup of the second found nothing.
C15_Witness ==
    /\ TwoChunksApart
    /\ First.path = Second.path
    /\ First.chunk.content = Second.chunk.content
    /\ Len(ret) = 2 /\ ret[1] /\ ret[2] = None

\* One request is for a whole file and the other for a chunk.
FileAndChunk == First.kind # Second.kind

FileRequested == IF First.kind = "file" THEN First ELSE Second

\* C16 as stated: no whole-file key input equals a chunk key input, so a
\* whole-file lookup never returns a chunk entry and a chunk lookup never
\* returns a whole-file entry.
C16_AsStated ==
    FileAndChunk =>
        /\ KeyOf(First) # KeyOf(Second)
        /\ Len(ret) = 2 => ret[2] = None

\* C16 as amended: the same, for a whole file whose content does not
\* contain '::'.
C16_KeySpacesApart ==
    (FileAndChunk /\ ~HasSeparator(FileRequested.content)) =>
        /\ KeyOf(First) # KeyOf(Second)
        /\ Len(ret) = 2 => ret[2] = None

\* C16 witness: a chunk entry was stored and the lookup for a whole file of
\* the same text found nothing.
C16_Witness ==
    /\ First.kind = "chunk" /\ Second.kind = "file"
    /\ First.chunk.content = Second.content
    /\ Len(ret) = 2 /\ ret[1] /\ ret[2] = None

\* The latest save_to_cache call was given a source text.
SourceGiven == args[1].source_code # None /\ args[1].source_code[1] # ""

\* C17: once save_to_cache has written, the persisted entry has a source
\* field if and only if store_source was true and a source text was given,
\* and the field is then exactly that text; a failed write persists nothing.
C17_SourceIffRequested ==
    (args # None /\ Len(ret) > 0) =>
        IF ret[Len(ret)]
        THEN LET entry == table[args[1].file_hash]
             IN  /\ ("source_code" \in DOMAIN entry)
                        <=> (args[1].store_source /\ SourceGiven)
                 /\ "source_code" \in DOMAIN entry =>
                        entry.source_code = args[1].source_code[1]
                 /\ entry.documentation = args[1].documentation
        ELSE Len(ret) = 1 => table = << >>

\* C17 witness: a second write under the same key, given a source text but
\* no retention, left an entry with no source field.
C17_Witness ==
    /\ Len(ret) = 2 /\ ret[1] /\ ret[2]
    /\ ~args[1].store_source
    /\ args[1].source_code = Some("abc")
    /\ "source_code" \notin DOMAIN table[args[1].file_hash]
    /\ Cardinality(DOMAIN table) = 1

\* The entry under the key holds a source field other than the string that
\* was hashed to give the key.
SourceIsNotHashed(key) ==
    /\ "source_code" \in DOMAIN table[key]
    /\ key # sha256(table[key].source_code)

\* C18 as stated: every entry of the store that has a source field holds in
\* it exactly the string that was hashed to produce the entry's key.
C18_AsStated == \A key \in DOMAIN table : ~SourceIsNotHashed(key)

\* An invocation is under way: the clock stands still until it ends.
Running == cpc \notin {"idle", "returned", "raised"}

\* C19 as stated: a lookup reports a hit only for an entry that has not
\* expired; an expired entry the store still holds is reported absent.
C19_AsStated ==
    Running =>
        \A i \in Futures :
            (obs[i].lookup = "hit" /\ cached[i] # None) => ~(cached[i][1].ttl < now)

\* The chunks of this invocation whose task raised.
Failed == { i \in Futures : future[i].exception # None }

\* C20: when process_chunks has ended on a request in which some or all
\* chunk generations failed, lambda_handler returns status 200 and success
\* true, the documentation has one section per chunk, and the section of
\* each failed chunk is its error marker.
C20_FailuresStillSucceed ==
    (cpc \in {"returned", "raised"} /\ Failed # {}) =>
        /\ lambda_handler.statusCode = 200
        /\ lambda_handler.body.success
        /\ LET sections == lambda_handler.body.data.documentation.sections
           IN  /\ Len(sections) = Len(chunks)
               /\ \A i \in Failed :
                    sections[i].text =
                        SectionText(error_result(chunks[i], GenError).documentation)
               /\ \A i \in Futures \ Failed :
                    sections[i].text = SectionText(DocOf(i))

\* C20 witness: of two chunks one was a cache hit and the other failed in
\* the generator, and the response is a success.
C20_Witness ==
    /\ cpc = "returned"
    /\ Len(chunks) = 2
    /\ obs[1].lookup = "hit"
    /\ obs[2].gen = "raise"
    /\ lambda_handler.statusCode = 200

\* Every chunk task of the invocation has finished and process_chunks has
\* returned.
Returned ==
    /\ cpc = "returned"
    /\ \A i \in Futures : tpc[i] = "finished"

\* C21: under fair scheduling, with every blocking call returning or
\* raising, an invocation of process_chunks that has been entered leads to
\* every chunk task finished and the coordinator returned, whatever the
\* number of chunks and of workers.
C21_Terminates == (cpc = "submit") ~> Returned

\* C21 witness: two chunks went through a pool of one worker and the
\* invocation returned.
C21_Witness ==
    /\ Returned
    /\ max_workers = 1
    /\ Len(chunks) = 2

\* The chunk of the input list that has the ordinal.
ChunkWithOrdinal(k) == CHOOSE c \in { chunks[i] : i \in Futures } : c.chunk_id = k

\* The section's heading and annotation are those of the chunk.
HeadedBy(section, chunk) ==
    /\ section.chunk_no = chunk.chunk_id + 1
    /\ section.start_line = chunk.start_line
    /\ section.end_line = chunk.end_line
    /\ section.contains = chunk.elements

\* C22 as stated: in the merged document the section built from the
\* ChunkResult with ordinal k takes its heading and its annotation from the
\* chunk with ordinal k, whatever the order of the input list.
C22_AsStated ==
    cpc = "returned" =>
        \A k \in 1..Len(chunk_results) :
            HeadedBy(output[1].merged_doc.sections[k],
                     ChunkWithOrdinal(chunk_results[k].chunk_id))

\* C23 as stated: in the metrics process_chunks returns, cache_hits plus
\* cache_misses equals total_chunks, runs with failed chunk tasks included.
C23_AsStated ==
    cpc = "returned" =>
        output[1].metrics.cache_hits + output[1].metrics.cache_misses
            = output[1].metrics.total_chunks

\* Without a failed task the counts do add up; with failed tasks they fall
\* short by the number of failures.
HitsAndMissesShortByFailures ==
    cpc = "returned" =>
        output[1].metrics.cache_hits + output[1].metrics.cache_misses
            = output[1].metrics.total_chunks - Cardinality(Failed)

====
